---- MODULE Spec2Model ----
(***************************************************************************)
(* Model of click_the_moving_dot's training pipeline                       *)
(* (train_demo_pytorch_lstm.py) and of its placeholder graph generator     *)
(* (create_dummy_onnx_model.py).                                           *)
(*                                                                         *)
(* Three specifications share the variables:                               *)
(*   SpecBuilder  load_and_prepare_data over every small event table;      *)
(*   SpecMain     a whole run of either script (main of the trainer, or    *)
(*                main of the dummy generator);                            *)
(*   SpecTrain    train_model alone, over long validation-loss series.     *)
(*                                                                         *)
(* Reals are modelled by exact integers: coordinates are pixels, and the   *)
(* input pools are chosen so that every quotient the code takes is exact.  *)
(***************************************************************************)
EXTENDS Integers, Sequences, FiniteSets

VARIABLES
    \* ---- load_and_prepare_data
    df,                 \* the event table read from the parquet file
    sequence_length,    \* parameter L
    min_session_length, \* parameter M
    lp_pc,              \* position inside load_and_prepare_data
    todo,               \* session uids the groupby iteration has not visited
    session_uid,        \* uid of the session being processed
    session_data,       \* that session's rows (row ids of df), sorted
    max_speed,          \* session_data["maxSpeed"].iloc[0]
    i,                  \* loop index of "for i in range(L, len(features))"
    sequences, targets, configs,   \* the three output lists
    win_rows,           \* history: the df row ids each window was sliced from
    tgt_row,            \* history: the df row id each target was computed from
    escape,             \* history: each target before the noise was added
    noise,              \* history: the noise added to each target
    \* ---- main (of either script)
    program,            \* "train": train_demo_pytorch_lstm, "dummy": the generator
    pc,                 \* position inside main
    file_exists,        \* os.path.exists(data_path)
    stdout,             \* the diagnostics printed so far
    error,              \* the uncaught exception that ended the run, or "none"
    train_idx, val_idx, \* the split: indices into sequences / targets
    scaler_X, scaler_y, \* the two StandardScaler objects of train_dataset
    train_dataset, val_dataset,    \* the scaled arrays of the two datasets
    fit_log,            \* history: every StandardScaler.fit call
    files,              \* the graph artifacts written to disk
    onnx_model,         \* the in-memory graph of the dummy generator
    validated,          \* history: onnx.checker.check_model passed in this run
    \* ---- train_model and the model object
    tm_pc,              \* position inside train_model
    batch_size, num_epochs,
    epoch,
    training,           \* model.training (dropout is active iff TRUE)
    grad_enabled,       \* FALSE inside "with torch.no_grad()"
    params_version,     \* number of optimizer.step() calls so far
    remaining,          \* training examples the shuffled iterator has not yielded
    val_pos,            \* validation examples the iterator has yielded
    train_loss, val_loss,          \* the running sums of the epoch
    train_losses, val_losses,      \* the recorded per-epoch means
    lr,                 \* optimizer learning rate, in units of 1e-9
    scheduler,          \* ReduceLROnPlateau state: best, num_bad_epochs
    halved_at,          \* history: the epochs (1-based) at which lr was reduced
    epoch_log           \* history: forward passes and steps of the current epoch

bvars == <<df, sequence_length, min_session_length, lp_pc, todo, session_uid,
           session_data, max_speed, i, sequences, targets, configs,
           win_rows, tgt_row, escape, noise>>

mvars == <<program, pc, file_exists, stdout, error, train_idx, val_idx,
           scaler_X, scaler_y, train_dataset, val_dataset, fit_log, files,
           onnx_model, validated>>

tvars == <<tm_pc, batch_size, num_epochs, epoch, training, grad_enabled,
           params_version, remaining, val_pos, train_loss, val_loss,
           train_losses, val_losses, lr, scheduler, halved_at, epoch_log>>

vars == <<bvars, mvars, tvars>>

(***************************************************************************)
(* Bounds and input pools                                                  *)
(***************************************************************************)
MaxRows == 4

\* One event row. maxSpeed is constant within a session (input schema).
Row(s, t, dx, dy, mx, my) ==
    [sessionUid |-> s, timestamp |-> t, dotX |-> dx, dotY |-> dy,
     mouseX |-> mx, mouseY |-> my, maxSpeed |-> s]

\* Two sessions, tied and distinct timestamps, pointer on and off the dot.
RowPool ==
    { Row(1, 1, 3, 4, 0, 0),      \* distance 5
      Row(1, 2, 7, 7, 7, 7),      \* pointer exactly on the dot
      Row(1, 3, 0, 0, 4, 3),      \* distance 5, other direction
      Row(2, 1, 5, 5, 5, 5),      \* pointer exactly on the dot
      Row(2, 2, 6, 8, 0, 0) }     \* distance 10

Tables == UNION { [1..n -> RowPool] : n \in 0..MaxRows }

\* (sequence_length, min_session_length) pairs the builder is called with.
BuilderParams == { <<1, 2>>, <<2, 3>>, <<3, 2>> }

\* Unit directions (cos, sin) of the random tie-break angle, as fifths.
Angles == { <<5, 0>>, <<-3, 4>> }

\* Draws of the two Gaussian noise samples.
NoiseDraws == { <<30, -30>>, <<-60, 10>> }

(***************************************************************************)
(* load_and_prepare_data                                                   *)
(***************************************************************************)
RECURSIVE SumOver(_, _)
SumOver(S, f) ==
    IF S = {} THEN 0
    ELSE LET x == CHOOSE y \in S : TRUE IN f[x] + SumOver(S \ {x}, f)

Min(S) == CHOOSE x \in S : \A y \in S : x <= y

Sqrt(n) == CHOOSE r \in 0..n : r * r = n

\* df.groupby("sessionUid"): the keys, and one group's rows in table order.
SessionUids(t) == { t[k].sessionUid : k \in DOMAIN t }

GroupRows(t, uid) ==
    SelectSeq([k \in DOMAIN t |-> k], LAMBDA k : t[k].sessionUid = uid)

Range(s) == { s[k] : k \in DOMAIN s }

\* Variant: the session is sliced in table order, without sorting.
Unsorted(t, rows) == { rows }

\* session_data.sort_values("timestamp"): the default sort is not stable, so
\* rows with equal timestamps may come out in any order.
SortedByTimestamp(t, rows) ==
    { p \in [1..Len(rows) -> Range(rows)] :
        /\ Range(p) = Range(rows)
        /\ \A a, b \in 1..Len(rows) :
              a < b => t[p[a]].timestamp <= t[p[b]].timestamp }

\* session_data[["dotX", "dotY", "mouseX", "mouseY"]].values
Features(t, rows) ==
    [k \in 1..Len(rows) |->
        <<t[rows[k]].dotX, t[rows[k]].dotY, t[rows[k]].mouseX, t[rows[k]].mouseY>>]

\* features[i - L : i] for the 0-based i of the code: rows i-L+1 .. i, 1-based.
Window(features, idx, L) == SubSeq(features, idx - L + 1, idx)

\* Variant: the y component is computed from dx (from cos) as well.
EscapeVelocitySwapped(cur, speed, angle) ==
    LET dx == cur[1] - cur[3]
        dy == cur[2] - cur[4]
        distance == Sqrt(dx * dx + dy * dy)
    IN  IF distance > 0
        THEN <<(dx * speed * 100) \div distance, (dx * speed * 100) \div distance>>
        ELSE <<(angle[1] * speed * 100) \div 5, (angle[1] * speed * 100) \div 5>>

\* Lines 161-175: the ideal escape velocity for the state cur, before noise.
EscapeVelocity(cur, speed, angle) ==
    LET dx == cur[1] - cur[3]
        dy == cur[2] - cur[4]
        distance == Sqrt(dx * dx + dy * dy)
    IN  IF distance > 0
        THEN <<(dx * speed * 100) \div distance, (dy * speed * 100) \div distance>>
        ELSE <<(angle[1] * speed * 100) \div 5, (angle[2] * speed * 100) \div 5>>

\* Lines 178-180: the two noise samples are added to the two components.
AddNoise(v, nz) == <<v[1] + nz[1], v[2] + nz[2]>>

\* Variant: a session of exactly M events is dropped too.
TooShortLE(n, M) == n <= M

\* Line 133: len(session_data) < min_session_length
TooShort(n, M) == n < M

LP_Start ==
    /\ lp_pc = "start"
    /\ todo' = SessionUids(df)
    /\ sequences' = <<>> /\ targets' = <<>> /\ configs' = <<>>
    /\ win_rows' = <<>> /\ tgt_row' = <<>> /\ escape' = <<>> /\ noise' = <<>>
    /\ lp_pc' = "next"
    /\ UNCHANGED <<df, sequence_length, min_session_length, session_uid,
                   session_data, max_speed, i>>
    /\ UNCHANGED <<mvars, tvars>>

\* Lines 132-134: a session shorter than M is skipped.
LP_Skip ==
    /\ lp_pc = "next" /\ todo # {}
    /\ LET uid == Min(todo) IN
        /\ TooShort(Len(GroupRows(df, uid)), min_session_length)
        /\ todo' = todo \ {uid}
    /\ UNCHANGED <<df, sequence_length, min_session_length, lp_pc, session_uid,
                   session_data, max_speed, i, sequences, targets, configs,
                   win_rows, tgt_row, escape, noise>>
    /\ UNCHANGED <<mvars, tvars>>

\* Lines 136-146: sort the kept session, read its maxSpeed, enter the loop.
LP_Sort ==
    /\ lp_pc = "next" /\ todo # {}
    /\ LET uid == Min(todo) IN
        /\ ~TooShort(Len(GroupRows(df, uid)), min_session_length)
        /\ \E p \in SortedByTimestamp(df, GroupRows(df, uid)) :
              /\ session_data' = p
              /\ max_speed' = df[p[1]].maxSpeed
        /\ session_uid' = uid
        /\ todo' = todo \ {uid}
    /\ i' = sequence_length
    /\ lp_pc' = "window"
    /\ UNCHANGED <<df, sequence_length, min_session_length, sequences, targets,
                   configs, win_rows, tgt_row, escape, noise>>
    /\ UNCHANGED <<mvars, tvars>>

\* Lines 149-184: one iteration of the window loop.
LP_Window ==
    /\ lp_pc = "window"
    /\ i < Len(session_data)
    /\ LET features == Features(df, session_data)
           seq == Window(features, i, sequence_length)
           cur == features[i + 1]
       IN \E angle \in Angles, nz \in NoiseDraws :
            LET v == EscapeVelocity(cur, max_speed, angle) IN
            /\ sequences' = Append(sequences, seq)
            /\ targets' = Append(targets, AddNoise(v, nz))
            /\ configs' = Append(configs, <<max_speed>>)
            /\ win_rows' = Append(win_rows,
                                  Window(session_data, i, sequence_length))
            /\ tgt_row' = Append(tgt_row, session_data[i + 1])
            /\ escape' = Append(escape, v)
            /\ noise' = Append(noise, nz)
    /\ i' = i + 1
    /\ UNCHANGED <<df, sequence_length, min_session_length, lp_pc, todo,
                   session_uid, session_data, max_speed>>
    /\ UNCHANGED <<mvars, tvars>>

\* The window loop ends: back to the session loop.
LP_EndSession ==
    /\ lp_pc = "window"
    /\ i >= Len(session_data)
    /\ lp_pc' = "next"
    /\ session_data' = <<>>
    /\ UNCHANGED <<df, sequence_length, min_session_length, todo, session_uid,
                   max_speed, i, sequences, targets, configs, win_rows,
                   tgt_row, escape, noise>>
    /\ UNCHANGED <<mvars, tvars>>

\* Lines 186-188: every session visited, the arrays are returned.
LP_Return ==
    /\ lp_pc = "next" /\ todo = {}
    /\ lp_pc' = "done"
    /\ UNCHANGED <<df, sequence_length, min_session_length, todo, session_uid,
                   session_data, max_speed, i, sequences, targets, configs,
                   win_rows, tgt_row, escape, noise>>
    /\ UNCHANGED <<mvars, tvars>>


(***************************************************************************)
(* DotBehaviorDataset and the two StandardScalers                          *)
(*                                                                         *)
(* A fitted scaler stores, per column, the sample count, the sum and the   *)
(* sum of squares: mean_ = sum/n and var_ = sumsq/n - (sum/n)^2 are        *)
(* functions of these, so the stored mean/variance change iff they do.     *)
(***************************************************************************)
NoneScaler ==
    [kind |-> "None", fitted |-> FALSE, n |-> 0, sum |-> <<>>, sumsq |-> <<>>]

\* StandardScaler(): a new, unfitted scaler.
NewScaler ==
    [kind |-> "StandardScaler", fitted |-> FALSE, n |-> 0, sum |-> <<>>,
     sumsq |-> <<>>]

\* sequences.reshape(-1, sequences.shape[-1]): the windows' rows, end to end.
RECURSIVE Flatten(_)
Flatten(seqs) ==
    IF seqs = <<>> THEN <<>> ELSE Head(seqs) \o Flatten(Tail(seqs))

\* StandardScaler.fit(rows): per-column statistics of a 2-D array.
Fit(rows) ==
    [kind |-> "StandardScaler", fitted |-> TRUE, n |-> Len(rows),
     sum |-> [c \in DOMAIN rows[1] |->
                 SumOver(DOMAIN rows, [r \in DOMAIN rows |-> rows[r][c]])],
     sumsq |-> [c \in DOMAIN rows[1] |->
                 SumOver(DOMAIN rows,
                         [r \in DOMAIN rows |-> rows[r][c] * rows[r][c]])]]

\* (x - mean_[c]) / scale_[c], kept exact: the value is num / sqrt(var), or
\* num / n when the column's variance is zero (scale_ is then 1).
Standardize(x, s, c) ==
    [num |-> s.n * x - s.sum[c],
     var |-> s.n * s.sumsq[c] - s.sum[c] * s.sum[c],
     n   |-> s.n]

\* StandardScaler.transform(rows)
Transform(s, rows) ==
    [r \in DOMAIN rows |->
        [c \in DOMAIN rows[r] |-> Standardize(rows[r][c], s, c)]]

\* _scale_sequences: reshape, transform, reshape back, i.e. window by window.
ScaleSequences(s, seqs) == [k \in DOMAIN seqs |-> Transform(s, seqs[k])]

\* Variant: fit_scalers alone decides, so supplied scalers are refitted.
DatasetInitRefit(seqs, tgts, sx, sy, fit_scalers) ==
    LET X == IF fit_scalers THEN Fit(Flatten(seqs))
             ELSE IF sx = NoneScaler THEN NewScaler ELSE sx
        Y == IF fit_scalers THEN Fit(tgts)
             ELSE IF sy = NoneScaler THEN NewScaler ELSE sy
        ok == X.fitted /\ Y.fitted
    IN  [scaler_X |-> X, scaler_y |-> Y,
         fits |-> IF fit_scalers THEN <<"X", "y">> ELSE <<>>,
         ok |-> ok,
         sequences_scaled |-> IF ok THEN ScaleSequences(X, seqs) ELSE <<>>,
         targets_scaled |-> IF ok THEN Transform(Y, tgts) ELSE <<>>]

\* DotBehaviorDataset.__init__(sequences, targets, scaler_X, scaler_y,
\* fit_scalers). ok is FALSE when transform is called on an unfitted scaler
\* (NotFittedError).
DatasetInit(seqs, tgts, sx, sy, fit_scalers) ==
    LET fitX == fit_scalers /\ sx = NoneScaler
        fitY == fit_scalers /\ sy = NoneScaler
        X == IF fitX THEN Fit(Flatten(seqs))
             ELSE IF sx = NoneScaler THEN NewScaler ELSE sx
        Y == IF fitY THEN Fit(tgts)
             ELSE IF sy = NoneScaler THEN NewScaler ELSE sy
        ok == X.fitted /\ Y.fitted
    IN  [scaler_X |-> X, scaler_y |-> Y,
         fits |-> (IF fitX THEN <<"X">> ELSE <<>>)
                      \o (IF fitY THEN <<"y">> ELSE <<>>),
         ok |-> ok,
         sequences_scaled |-> IF ok THEN ScaleSequences(X, seqs) ELSE <<>>,
         targets_scaled |-> IF ok THEN Transform(Y, tgts) ELSE <<>>]

NoDataset == [sequences_scaled |-> <<>>, targets_scaled |-> <<>>]

\* The arrays train_test_split returns for one partition.
XOf(idx) == [k \in DOMAIN idx |-> sequences[idx[k]]]

YOf(idx) == [k \in DOMAIN idx |-> targets[idx[k]]]

(***************************************************************************)
(* train_model                                                             *)
(***************************************************************************)
\* Losses a validation batch can give. 39998 is below 40000, but by less
\* than the scheduler's relative threshold.
LossValues == { 20000, 39998, 40000 }

\* The loss of a training batch; no control flow reads it.
TrainLossValues == { 30000 }

Patience == 5

\* len(loader) for n examples in batches of bs
NumBatches(n, bs) == (n + bs - 1) \div bs

\* Variant: the config input carries each example's maxSpeed.
ConfigFromConfigs(batch) == [b \in batch |-> configs[b][1]]

\* Lines 218-219 and 246-247: torch.ones(batch_size, 1), one entry per example.
ConfigTensor(batch) == [b \in batch |-> 1]

\* ReduceLROnPlateau(optimizer, patience=5, factor=0.5), mode "min",
\* threshold 1e-4 (relative), cooldown 0, min_lr 0, eps 1e-8.
SchedulerInit == [best |-> [inf |-> TRUE, v |-> 0], num_bad_epochs |-> 0]

\* is_better: current < best * (1 - threshold)
IsBetter(a, best) == best.inf \/ a * 10000 < best.v * 9999

\* Variant: the rate is reduced as soon as num_bad_epochs reaches patience.
SchedulerStepAtPatience(sch, metric, cur_lr) ==
    LET better == IsBetter(metric, sch.best)
        bad    == IF better THEN 0 ELSE sch.num_bad_epochs + 1
        reduce == bad >= Patience
        new_lr == cur_lr \div 2
        apply  == reduce /\ cur_lr - new_lr > 10
    IN  [scheduler |->
            [best |-> IF better THEN [inf |-> FALSE, v |-> metric] ELSE sch.best,
             num_bad_epochs |-> IF reduce THEN 0 ELSE bad],
         lr |-> IF apply THEN new_lr ELSE cur_lr,
         reduced |-> apply]

\* scheduler.step(avg_val_loss): the rate is reduced once num_bad_epochs
\* exceeds patience; the new rate is taken when it differs by more than eps.
SchedulerStep(sch, metric, cur_lr) ==
    LET better == IsBetter(metric, sch.best)
        bad    == IF better THEN 0 ELSE sch.num_bad_epochs + 1
        reduce == bad > Patience
        new_lr == cur_lr \div 2
        apply  == reduce /\ cur_lr - new_lr > 10
    IN  [scheduler |->
            [best |-> IF better THEN [inf |-> FALSE, v |-> metric] ELSE sch.best,
             num_bad_epochs |-> IF reduce THEN 0 ELSE bad],
         lr |-> IF apply THEN new_lr ELSE cur_lr,
         reduced |-> apply]

\* One forward pass, as the history records it.
Forward(kind, batch) ==
    [kind |-> kind, dropout |-> training, grad |-> grad_enabled,
     batch |-> batch, config |-> ConfigTensor(batch), params |-> params_version]

\* Variant: the mode switch is missing, the model stays as it was.
ModeKeep(mode) == training

\* model.train() / model.eval(): the value model.training takes.
ModeSet(mode) == mode

\* Lines 194-206: device, criterion, optimizer, scheduler, the two loss lists.
TM_Setup ==
    /\ tm_pc = "setup"
    /\ lr' = 1000000              \* learning_rate = 0.001, in units of 1e-9
    /\ scheduler' = SchedulerInit
    /\ train_losses' = <<>> /\ val_losses' = <<>>
    /\ epoch' = 0
    /\ tm_pc' = "epoch"
    /\ UNCHANGED <<bvars, mvars, batch_size, num_epochs, training, grad_enabled,
                   params_version, remaining, val_pos, train_loss, val_loss,
                   halved_at, epoch_log>>

\* Lines 208-211: a new epoch: model.train(), a fresh shuffled iterator.
TM_EpochStart ==
    /\ tm_pc = "epoch"
    /\ epoch < num_epochs
    /\ training' = ModeSet(TRUE)
    /\ train_loss' = 0
    /\ remaining' = DOMAIN train_idx
    /\ epoch_log' = <<>>
    /\ tm_pc' = "train"
    /\ UNCHANGED <<bvars, mvars, batch_size, num_epochs, epoch, grad_enabled,
                   params_version, val_pos, val_loss, train_losses, val_losses,
                   lr, scheduler, halved_at>>

\* Lines 213-235: one training batch: forward, loss, backward, clip, step.
TM_TrainBatch ==
    /\ tm_pc = "train"
    /\ remaining # {}
    /\ \E B \in SUBSET remaining, loss \in TrainLossValues :
          /\ Cardinality(B) = IF Cardinality(remaining) < batch_size
                              THEN Cardinality(remaining) ELSE batch_size
          /\ remaining' = remaining \ B
          /\ epoch_log' = Append(epoch_log,
                                 [Forward("train", { train_idx[q] : q \in B })
                                     EXCEPT !.params = params_version + 1])
          /\ train_loss' = train_loss + loss
    /\ params_version' = params_version + 1
    /\ UNCHANGED <<bvars, mvars, tm_pc, batch_size, num_epochs, epoch, training,
                   grad_enabled, val_pos, val_loss, train_losses, val_losses,
                   lr, scheduler, halved_at>>

\* Lines 237-241: model.eval(), val_loss = 0, enter torch.no_grad().
TM_EvalMode ==
    /\ tm_pc = "train"
    /\ remaining = {}
    /\ training' = ModeSet(FALSE)
    /\ grad_enabled' = FALSE
    /\ val_loss' = 0
    /\ val_pos' = 0
    /\ tm_pc' = "val"
    /\ UNCHANGED <<bvars, mvars, batch_size, num_epochs, epoch, params_version,
                   remaining, train_loss, train_losses, val_losses, lr,
                   scheduler, halved_at, epoch_log>>

\* Lines 242-253: one validation batch, in dataset order.
TM_ValBatch ==
    /\ tm_pc = "val"
    /\ val_pos < Len(val_idx)
    /\ LET last == IF val_pos + batch_size > Len(val_idx)
                   THEN Len(val_idx) ELSE val_pos + batch_size
       IN \E loss \in LossValues :
            /\ epoch_log' = Append(epoch_log,
                   Forward("val", { val_idx[q] : q \in (val_pos + 1)..last }))
            /\ val_loss' = val_loss + loss
            /\ val_pos' = last
    /\ UNCHANGED <<bvars, mvars, tm_pc, batch_size, num_epochs, epoch, training,
                   grad_enabled, params_version, remaining, train_loss,
                   train_losses, val_losses, lr, scheduler, halved_at>>

\* Lines 255-268: leave no_grad, record the two means, step the scheduler.
TM_EpochEnd ==
    /\ tm_pc = "val"
    /\ val_pos >= Len(val_idx)
    /\ LET avg_train_loss ==
               train_loss \div NumBatches(Len(train_idx), batch_size)
           avg_val_loss ==
               val_loss \div NumBatches(Len(val_idx), batch_size)
           st == SchedulerStep(scheduler, avg_val_loss, lr)
       IN /\ train_losses' = Append(train_losses, avg_train_loss)
          /\ val_losses' = Append(val_losses, avg_val_loss)
          /\ scheduler' = st.scheduler
          /\ lr' = st.lr
          /\ halved_at' = IF st.reduced THEN Append(halved_at, epoch + 1)
                          ELSE halved_at
    /\ grad_enabled' = TRUE
    /\ epoch' = epoch + 1
    /\ tm_pc' = "epoch"
    /\ UNCHANGED <<bvars, mvars, batch_size, num_epochs, training,
                   params_version, remaining, val_pos, train_loss, val_loss,
                   epoch_log>>

\* Line 270: the epochs are over.
TM_Return ==
    /\ tm_pc = "epoch"
    /\ epoch >= num_epochs
    /\ tm_pc' = "done"
    /\ UNCHANGED <<bvars, mvars, batch_size, num_epochs, epoch, training,
                   grad_enabled, params_version, remaining, val_pos, train_loss,
                   val_loss, train_losses, val_losses, lr, scheduler, halved_at,
                   epoch_log>>


(***************************************************************************)
(* The two graph producers                                                 *)
(***************************************************************************)
Dim(n) == [dynamic |-> FALSE, size |-> n]

\* A dimension declared dynamic (None, or a named axis).
DynDim == [dynamic |-> TRUE, size |-> 0]

NoGraph == [inputs |-> <<>>, outputs |-> <<>>, opset |-> 0]

\* create_dummy_model(): the declared interface of the placeholder graph.
create_dummy_model ==
    [inputs  |-> << [name |-> "history", shape |-> <<DynDim, Dim(6)>>],
                    [name |-> "config",  shape |-> <<Dim(1)>>] >>,
     outputs |-> << [name |-> "targetVx", shape |-> <<Dim(1)>>],
                    [name |-> "targetVy", shape |-> <<Dim(1)>>] >>,
     opset   |-> 14]

\* The interface torch.onnx.export declares for the traced model: the
\* example inputs are (1, sequence_length, 4) and (1, 1), axis 1 of history
\* is dynamic, and forward returns two (batch, 1) slices.
ExportedGraph ==
    [inputs  |-> << [name |-> "history",
                     shape |-> <<Dim(1), DynDim, Dim(4)>>],
                    [name |-> "config",  shape |-> <<Dim(1), Dim(1)>>] >>,
     outputs |-> << [name |-> "targetVx", shape |-> <<Dim(1), Dim(1)>>],
                    [name |-> "targetVy", shape |-> <<Dim(1), Dim(1)>>] >>,
     opset   |-> 14]

\* Lines 276-280 of export_to_onnx: model.cpu(); model.eval().
Export_Eval ==
    /\ pc = "export"
    /\ training' = ModeSet(FALSE)
    /\ pc' = "export_trace"
    /\ UNCHANGED <<bvars, program, file_exists, stdout, error, train_idx,
                   val_idx, scaler_X, scaler_y, train_dataset, val_dataset,
                   fit_log, files, onnx_model, validated>>
    /\ UNCHANGED <<tm_pc, batch_size, num_epochs, epoch, grad_enabled,
                   params_version, remaining, val_pos, train_loss, val_loss,
                   train_losses, val_losses, lr, scheduler, halved_at,
                   epoch_log>>

\* Lines 283-301: torch.onnx.export traces the model on the dummy inputs and
\* writes the graph to output_path; no check of the graph precedes the
\* write. The write can fail (the exception is not caught).
Export_Write ==
    /\ pc = "export_trace"
    /\ epoch_log' = Append(epoch_log, Forward("export", {}))
    /\ \E written \in BOOLEAN :
          IF written
          THEN /\ files' = files \cup
                     { [path |-> "public/pytorch_dot_behavior.onnx",
                        graph |-> ExportedGraph] }
               /\ stdout' = stdout \cup {"exported"}
               /\ pc' = "finish"
               /\ error' = error
          ELSE /\ error' = "OSError"
               /\ pc' = "crashed"
               /\ UNCHANGED <<files, stdout>>
    /\ UNCHANGED <<bvars, program, file_exists, train_idx, val_idx, scaler_X,
                   scaler_y, train_dataset, val_dataset, fit_log, onnx_model,
                   validated>>
    /\ UNCHANGED <<tm_pc, batch_size, num_epochs, epoch, training, grad_enabled,
                   params_version, remaining, val_pos, train_loss, val_loss,
                   train_losses, val_losses, lr, scheduler, halved_at>>

\* Lines 378-380 of main.
MainFinish ==
    /\ pc = "finish"
    /\ stdout' = stdout \cup {"completed"}
    /\ pc' = "done"
    /\ UNCHANGED <<bvars, tvars, program, file_exists, error, train_idx,
                   val_idx, scaler_X, scaler_y, train_dataset, val_dataset,
                   fit_log, files, onnx_model, validated>>

\* create_dummy_onnx_model.main, lines 116-121.
D_Create ==
    /\ program = "dummy" /\ pc = "start"
    /\ onnx_model' = create_dummy_model
    /\ pc' = "validate"
    /\ UNCHANGED <<bvars, tvars, program, file_exists, stdout, error, train_idx,
                   val_idx, scaler_X, scaler_y, train_dataset, val_dataset,
                   fit_log, files, validated>>

\* Lines 123-129: onnx.checker.check_model either passes or raises; a
\* failure is reported and main returns.
D_Validate ==
    /\ program = "dummy" /\ pc = "validate"
    /\ \E passed \in BOOLEAN :
          IF passed
          THEN /\ validated' = TRUE
               /\ stdout' = stdout \cup {"validation_passed"}
               /\ pc' = "save"
          ELSE /\ validated' = FALSE
               /\ stdout' = stdout \cup {"validation_failed"}
               /\ pc' = "done"
    /\ UNCHANGED <<bvars, tvars, program, file_exists, error, train_idx,
                   val_idx, scaler_X, scaler_y, train_dataset, val_dataset,
                   fit_log, files, onnx_model>>

\* Lines 131-137: onnx.save; a write failure is an uncaught exception.
D_Save ==
    /\ program = "dummy" /\ pc = "save"
    /\ \E written \in BOOLEAN :
          IF written
          THEN /\ files' = files \cup
                     { [path |-> "public/dummy_dot_behavior.onnx",
                        graph |-> onnx_model] }
               /\ stdout' = stdout \cup {"saved"}
               /\ pc' = "done"
               /\ error' = error
          ELSE /\ error' = "OSError"
               /\ pc' = "crashed"
               /\ UNCHANGED <<files, stdout>>
    /\ UNCHANGED <<bvars, tvars, program, file_exists, train_idx, val_idx,
                   scaler_X, scaler_y, train_dataset, val_dataset, fit_log,
                   onnx_model, validated>>

(***************************************************************************)
(* main of train_demo_pytorch_lstm.py                                      *)
(***************************************************************************)
\* Stand-ins for main's sequence_length = 10, batch_size = 64 and
\* num_epochs = 30, and for the default min_session_length = 20.
MainSequenceLength == 1

DefaultMinSessionLength == 2

BatchSize == 1

NumEpochs == 2

\* Line 314: not os.path.exists(data_path)
FileMissing(exists) == ~exists

\* Variant: the empty-dataset test is missing.
NoDataNever(seqs) == FALSE

\* Line 324: len(sequences) == 0
NoData(seqs) == Len(seqs) = 0

Perms(n) == { p \in [1..n -> 1..n] : Range(p) = 1..n }

\* Lines 313-317.
MainCheckExists ==
    /\ program = "train" /\ pc = "start"
    /\ IF FileMissing(file_exists)
       THEN /\ stdout' = stdout \cup {"data_not_found"}
            /\ pc' = "done"
       ELSE /\ pc' = "load"
            /\ stdout' = stdout
    /\ UNCHANGED <<bvars, tvars, program, file_exists, error, train_idx,
                   val_idx, scaler_X, scaler_y, train_dataset, val_dataset,
                   fit_log, files, onnx_model, validated>>

\* Lines 320-322: the call of load_and_prepare_data; pd.read_parquet raises
\* when the file is not there.
MainLoad ==
    /\ pc = "load"
    /\ IF file_exists
       THEN /\ sequence_length' = MainSequenceLength
            /\ min_session_length' = DefaultMinSessionLength
            /\ lp_pc' = "start"
            /\ pc' = "loading"
            /\ error' = error
       ELSE /\ error' = "FileNotFoundError"
            /\ pc' = "crashed"
            /\ UNCHANGED <<sequence_length, min_session_length, lp_pc>>
    /\ UNCHANGED <<df, todo, session_uid, session_data, max_speed, i, sequences,
                   targets, configs, win_rows, tgt_row, escape, noise>>
    /\ UNCHANGED <<tvars, program, file_exists, stdout, train_idx, val_idx,
                   scaler_X, scaler_y, train_dataset, val_dataset, fit_log,
                   files, onnx_model, validated>>

\* Lines 324-326.
MainCheckEmpty ==
    /\ pc = "loading" /\ lp_pc = "done"
    /\ IF NoData(sequences)
       THEN /\ stdout' = stdout \cup {"no_training_data"}
            /\ pc' = "done"
       ELSE /\ pc' = "split"
            /\ stdout' = stdout
    /\ UNCHANGED <<bvars, tvars, program, file_exists, error, train_idx,
                   val_idx, scaler_X, scaler_y, train_dataset, val_dataset,
                   fit_log, files, onnx_model, validated>>

\* Lines 328-334: train_test_split(sequences, targets, test_size=0.2): a
\* shuffled split with ceil(0.2 n) test samples; it raises ValueError when
\* the training part would be empty. configs is not passed.
MainSplit ==
    /\ pc = "split"
    /\ LET n      == Len(sequences)
           n_test == (n + 4) \div 5
       IN IF n - n_test = 0
          THEN /\ error' = "ValueError"
               /\ pc' = "crashed"
               /\ UNCHANGED <<train_idx, val_idx>>
          ELSE /\ \E p \in Perms(n) :
                    /\ val_idx' = SubSeq(p, 1, n_test)
                    /\ train_idx' = SubSeq(p, n_test + 1, n)
               /\ pc' = "train_dataset"
               /\ error' = error
    /\ UNCHANGED <<bvars, tvars, program, file_exists, stdout, scaler_X,
                   scaler_y, train_dataset, val_dataset, fit_log, files,
                   onnx_model, validated>>

FitEntries(fits, part) == [k \in DOMAIN fits |-> [scaler |-> fits[k], on |-> part]]

\* Line 337: DotBehaviorDataset(X_train, y_train, fit_scalers=True)
MainTrainDataset ==
    /\ pc = "train_dataset"
    /\ LET d == DatasetInit(XOf(train_idx), YOf(train_idx), NoneScaler,
                            NoneScaler, TRUE)
       IN /\ scaler_X' = d.scaler_X
          /\ scaler_y' = d.scaler_y
          /\ train_dataset' = [sequences_scaled |-> d.sequences_scaled,
                               targets_scaled |-> d.targets_scaled]
          /\ fit_log' = fit_log \o FitEntries(d.fits, "train")
    /\ pc' = "val_dataset"
    /\ UNCHANGED <<bvars, tvars, program, file_exists, stdout, error, train_idx,
                   val_idx, val_dataset, files, onnx_model, validated>>

\* Lines 338-344: DotBehaviorDataset(X_val, y_val, scaler_X=..., scaler_y=...,
\* fit_scalers=False); the two scaler objects are shared with train_dataset.
MainValDataset ==
    /\ pc = "val_dataset"
    /\ LET d == DatasetInit(XOf(val_idx), YOf(val_idx), scaler_X, scaler_y,
                            FALSE)
       IN /\ scaler_X' = d.scaler_X
          /\ scaler_y' = d.scaler_y
          /\ val_dataset' = [sequences_scaled |-> d.sequences_scaled,
                             targets_scaled |-> d.targets_scaled]
          /\ fit_log' = fit_log \o FitEntries(d.fits, "val")
    /\ pc' = "train"
    /\ UNCHANGED <<bvars, tvars, program, file_exists, stdout, error, train_idx,
                   val_idx, train_dataset, files, onnx_model, validated>>

\* Lines 346-362: the loaders, the model, and the call of train_model.
MainTrain ==
    /\ pc = "train" /\ tm_pc = "idle"
    /\ batch_size' = BatchSize
    /\ num_epochs' = NumEpochs
    /\ tm_pc' = "setup"
    /\ pc' = "training"
    /\ UNCHANGED <<bvars, program, file_exists, stdout, error, train_idx,
                   val_idx, scaler_X, scaler_y, train_dataset, val_dataset,
                   fit_log, files, onnx_model, validated>>
    /\ UNCHANGED <<epoch, training, grad_enabled, params_version, remaining,
                   val_pos, train_loss, val_loss, train_losses, val_losses, lr,
                   scheduler, halved_at, epoch_log>>

\* Lines 364-376: train_model has returned; plot, then call export_to_onnx.
MainPlot ==
    /\ pc = "training" /\ tm_pc = "done"
    /\ pc' = "export"
    /\ UNCHANGED <<bvars, tvars, program, file_exists, stdout, error, train_idx,
                   val_idx, scaler_X, scaler_y, train_dataset, val_dataset,
                   fit_log, files, onnx_model, validated>>

(***************************************************************************)
(* Specifications                                                          *)
(***************************************************************************)
IdleBuilder ==
    /\ todo = {} /\ session_uid = 0 /\ session_data = <<>> /\ max_speed = 0
    /\ i = 0
    /\ sequences = <<>> /\ targets = <<>> /\ configs = <<>>
    /\ win_rows = <<>> /\ tgt_row = <<>> /\ escape = <<>> /\ noise = <<>>

IdleMain ==
    /\ stdout = {} /\ error = "none"
    /\ train_idx = <<>> /\ val_idx = <<>>
    /\ scaler_X = NoneScaler /\ scaler_y = NoneScaler
    /\ train_dataset = NoDataset /\ val_dataset = NoDataset
    /\ fit_log = <<>> /\ files = {}
    /\ onnx_model = NoGraph /\ validated = FALSE

\* A freshly constructed model is in training mode; gradients are enabled.
IdleTrain ==
    /\ epoch = 0 /\ training = TRUE /\ grad_enabled = TRUE
    /\ params_version = 0 /\ remaining = {} /\ val_pos = 0
    /\ train_loss = 0 /\ val_loss = 0
    /\ train_losses = <<>> /\ val_losses = <<>>
    /\ lr = 0 /\ scheduler = SchedulerInit
    /\ halved_at = <<>> /\ epoch_log = <<>>

InitBuilder ==
    /\ df \in Tables
    /\ \E p \in BuilderParams :
          sequence_length = p[1] /\ min_session_length = p[2]
    /\ lp_pc = "start"
    /\ IdleBuilder
    /\ program = "train" /\ pc = "loading" /\ file_exists = TRUE
    /\ IdleMain
    /\ tm_pc = "idle" /\ batch_size = 0 /\ num_epochs = 0
    /\ IdleTrain

NextBuilder ==
    \/ LP_Start
    \/ LP_Skip
    \/ LP_Sort
    \/ LP_Window
    \/ LP_EndSession
    \/ LP_Return

SpecBuilder == InitBuilder /\ [][NextBuilder]_vars

\* Event tables of the data file in whole runs: empty, one short session, one
\* session giving a single window, and one or two sessions giving more.
MainTables ==
    { <<>>,
      << Row(1, 1, 3, 4, 0, 0) >>,
      << Row(1, 2, 7, 7, 7, 7), Row(1, 1, 3, 4, 0, 0) >>,
      << Row(1, 3, 0, 0, 4, 3), Row(1, 1, 3, 4, 0, 0), Row(1, 2, 7, 7, 7, 7) >>,
      << Row(1, 1, 3, 4, 0, 0), Row(2, 1, 5, 5, 5, 5),
         Row(1, 3, 0, 0, 4, 3), Row(2, 2, 6, 8, 0, 0) >>,
      << Row(2, 2, 6, 8, 0, 0), Row(1, 1, 3, 4, 0, 0), Row(2, 1, 5, 5, 5, 5),
         Row(1, 3, 0, 0, 4, 3), Row(2, 3, 6, 8, 0, 0) >>,
      << Row(2, 2, 6, 8, 0, 0), Row(2, 1, 5, 5, 5, 5), Row(2, 2, 5, 5, 5, 5),
         Row(2, 3, 6, 8, 0, 0) >> }

InitMain ==
    /\ program \in {"train", "dummy"}
    /\ pc = "start"
    /\ \/ program = "train" /\ file_exists = TRUE /\ df \in MainTables
       \/ program = "train" /\ file_exists = FALSE /\ df = <<>>
       \/ program = "dummy" /\ file_exists = FALSE /\ df = <<>>
    /\ sequence_length = 0 /\ min_session_length = 0
    /\ lp_pc = "idle"
    /\ IdleBuilder
    /\ IdleMain
    /\ tm_pc = "idle" /\ batch_size = 0 /\ num_epochs = 0
    /\ IdleTrain

NextMain ==
    \/ MainCheckExists
    \/ MainLoad
    \/ LP_Start
    \/ LP_Skip
    \/ LP_Sort
    \/ LP_Window
    \/ LP_EndSession
    \/ LP_Return
    \/ MainCheckEmpty
    \/ MainSplit
    \/ MainTrainDataset
    \/ MainValDataset
    \/ MainTrain
    \/ TM_Setup
    \/ TM_EpochStart
    \/ TM_TrainBatch
    \/ TM_EvalMode
    \/ TM_ValBatch
    \/ TM_EpochEnd
    \/ TM_Return
    \/ MainPlot
    \/ Export_Eval
    \/ Export_Write
    \/ MainFinish
    \/ D_Create
    \/ D_Validate
    \/ D_Save

SpecMain == InitMain /\ [][NextMain]_vars

\* Calls of train_model: training examples, validation examples, batch
\* size, and whether the call runs the long series of epochs.
MaxEpochs == 8

TrainCalls ==
    { [n_train |-> 1, n_val |-> 1, batch_size |-> 1, long |-> TRUE],
      [n_train |-> 2, n_val |-> 2, batch_size |-> 1, long |-> FALSE],
      [n_train |-> 3, n_val |-> 3, batch_size |-> 2, long |-> FALSE] }

\* train_model called on given loaders, then export_to_onnx, as main does.
InitTrain ==
    /\ program = "train" /\ pc = "training" /\ file_exists = TRUE
    /\ df = <<>> /\ sequence_length = 0 /\ min_session_length = 0
    /\ lp_pc = "done"
    /\ IdleBuilder
    /\ \E c \in TrainCalls :
          /\ train_idx = [k \in 1..c.n_train |-> k]
          /\ val_idx = [k \in 1..c.n_val |-> c.n_train + k]
          /\ batch_size = c.batch_size
          /\ num_epochs \in IF c.long THEN 0..MaxEpochs ELSE {NumEpochs}
    /\ stdout = {} /\ error = "none"
    /\ scaler_X = NoneScaler /\ scaler_y = NoneScaler
    /\ train_dataset = NoDataset /\ val_dataset = NoDataset
    /\ fit_log = <<>> /\ files = {}
    /\ onnx_model = NoGraph /\ validated = FALSE
    /\ tm_pc = "setup"
    /\ IdleTrain

NextTrain ==
    \/ TM_Setup
    \/ TM_EpochStart
    \/ TM_TrainBatch
    \/ TM_EvalMode
    \/ TM_ValBatch
    \/ TM_EpochEnd
    \/ TM_Return
    \/ MainPlot
    \/ Export_Eval
    \/ Export_Write
    \/ MainFinish

SpecTrain == InitTrain /\ [][NextTrain]_vars

(***************************************************************************)
(* Properties of load_and_prepare_data                                     *)
(***************************************************************************)
Examples == DOMAIN sequences

SessionLen(uid) == Len(GroupRows(df, uid))

\* The examples whose target event belongs to session uid.
WindowsOf(uid) == { k \in DOMAIN tgt_row : df[tgt_row[k]].sessionUid = uid }

ExpectedWindows(n, L, M) ==
    IF n < M THEN 0 ELSE IF n <= L THEN 0 ELSE n - L

\* C1: when load_and_prepare_data returns, a session of n events has given
\* 0 windows if n < M, and n - L windows (0 if n <= L) otherwise; the three
\* output lists hold the sum of these over the sessions.
C1_WindowCount ==
    lp_pc = "done" =>
        /\ \A uid \in SessionUids(df) :
              Cardinality(WindowsOf(uid)) =
                  ExpectedWindows(SessionLen(uid), sequence_length,
                                  min_session_length)
        /\ Len(sequences) =
              SumOver(SessionUids(df),
                      [uid \in SessionUids(df) |->
                          ExpectedWindows(SessionLen(uid), sequence_length,
                                          min_session_length)])
        /\ Len(targets) = Len(sequences)
        /\ Len(configs) = Len(sequences)

\* A finished call in which one session was dropped as too short and the
\* other gave two windows.
C1_Witness ==
    /\ lp_pc = "done"
    /\ \E a, b \in SessionUids(df) :
          /\ SessionLen(a) < min_session_length
          /\ Cardinality(WindowsOf(a)) = 0
          /\ SessionLen(b) >= min_session_length
          /\ Cardinality(WindowsOf(b)) = 2

Ts(r) == df[r].timestamp

SessionRowSet(uid) == Range(GroupRows(df, uid))

\* C2: every emitted window is L distinct rows of one session, in
\* non-decreasing timestamp order with no other row of the session strictly
\* between them; its target and config come from a row of the same session,
\* outside the window, that follows it with no row strictly in between.
C2_WindowWithinSession ==
    \A k \in Examples :
        LET w   == win_rows[k]
            t   == tgt_row[k]
            uid == df[t].sessionUid
            rest == SessionRowSet(uid) \ (Range(w) \cup {t})
        IN  /\ Len(w) = sequence_length
            /\ Cardinality(Range(w)) = sequence_length
            /\ \A a \in DOMAIN w : df[w[a]].sessionUid = uid
            /\ \A a, b \in DOMAIN w : a < b => Ts(w[a]) <= Ts(w[b])
            /\ \A r \in rest : ~(Ts(w[1]) < Ts(r) /\ Ts(r) < Ts(w[Len(w)]))
            /\ t \notin Range(w)
            /\ Ts(w[Len(w)]) <= Ts(t)
            /\ \A r \in rest : ~(Ts(w[Len(w)]) < Ts(r) /\ Ts(r) < Ts(t))
            /\ sequences[k] = Features(df, w)
            /\ configs[k] = <<df[t].maxSpeed>>
            /\ \E angle \in Angles :
                  escape[k] = EscapeVelocity(Features(df, <<t>>)[1],
                                             df[t].maxSpeed, angle)

\* A window was cut from a session whose rows are out of timestamp order in
\* the table, in a table holding two sessions.
C2_Witness ==
    /\ Len(sequences) >= 1
    /\ Cardinality(SessionUids(df)) = 2
    /\ sequence_length >= 2
    /\ \E a, b \in DOMAIN df :
          /\ a < b
          /\ df[a].sessionUid = df[b].sessionUid
          /\ df[a].sessionUid = df[tgt_row[1]].sessionUid
          /\ df[a].timestamp > df[b].timestamp

Overlapping(r) == df[r].dotX = df[r].mouseX /\ df[r].dotY = df[r].mouseY

\* C3: before the noise every target has magnitude maxSpeed*100; off the
\* pointer it is the normalized (agent - pointer) vector scaled by
\* maxSpeed*100, on the pointer it is some unit direction scaled the same; the
\* emitted target is that vector plus the two noise samples.
C3_TargetMagnitude ==
    \A k \in Examples :
        LET r  == tgt_row[k]
            s  == df[r].maxSpeed * 100
            dx == df[r].dotX - df[r].mouseX
            dy == df[r].dotY - df[r].mouseY
            v  == escape[k]
        IN  /\ v[1] * v[1] + v[2] * v[2] = s * s
            /\ ~Overlapping(r) =>
                  /\ v[1] * v[1] * (dx * dx + dy * dy) = dx * dx * s * s
                  /\ v[2] * v[2] * (dx * dx + dy * dy) = dy * dy * s * s
                  /\ v[1] * dx >= 0 /\ v[2] * dy >= 0
            /\ targets[k] = <<v[1] + noise[k][1], v[2] + noise[k][2]>>

\* Both branches were taken: one target on the pointer, one off it.
C3_Witness ==
    /\ lp_pc = "done"
    /\ \E a, b \in Examples :
          /\ Overlapping(tgt_row[a])
          /\ ~Overlapping(tgt_row[b])

(***************************************************************************)
(* Properties of main, the datasets, train_model and the graph producers   *)
(***************************************************************************)
TrainStatsX == Fit(Flatten(XOf(train_idx)))

TrainStatsY == Fit(YOf(train_idx))

\* C4: each scaler is fitted exactly once, on the training partition and
\* after the split; a DotBehaviorDataset built on the validation partition
\* with the two scalers supplied, whatever fit_scalers is, fits nothing and
\* leaves their statistics unchanged; both datasets are scaled with the
\* training statistics.
C4_ScalersFittedOnTrainOnly ==
    /\ fit_log # <<>> => train_idx # <<>>
    /\ fit_log \in { <<>>, << [scaler |-> "X", on |-> "train"],
                             [scaler |-> "y", on |-> "train"] >> }
    /\ train_dataset # NoDataset =>
          /\ Len(fit_log) = 2
          /\ scaler_X = TrainStatsX /\ scaler_y = TrainStatsY
          /\ train_dataset.sequences_scaled =
                 ScaleSequences(TrainStatsX, XOf(train_idx))
          /\ train_dataset.targets_scaled =
                 Transform(TrainStatsY, YOf(train_idx))
    /\ pc = "val_dataset" =>
          \A fit \in BOOLEAN :
              LET d == DatasetInit(XOf(val_idx), YOf(val_idx), scaler_X,
                                   scaler_y, fit)
              IN  /\ d.scaler_X = scaler_X /\ d.scaler_y = scaler_y
                  /\ d.fits = <<>>
                  /\ d.ok
                  /\ d.sequences_scaled =
                         ScaleSequences(TrainStatsX, XOf(val_idx))
    /\ val_dataset # NoDataset =>
          /\ val_dataset.sequences_scaled =
                 ScaleSequences(TrainStatsX, XOf(val_idx))
          /\ val_dataset.targets_scaled =
                 Transform(TrainStatsY, YOf(val_idx))

\* Both datasets exist, and fitting on the validation partition would have
\* given other statistics.
C4_Witness ==
    /\ pc = "done"
    /\ val_dataset # NoDataset
    /\ Fit(Flatten(XOf(val_idx))) # scaler_X
    /\ Fit(YOf(val_idx)) # scaler_y

NothingRan ==
    /\ train_idx = <<>> /\ val_idx = <<>>
    /\ fit_log = <<>>
    /\ tm_pc = "idle" /\ epoch = 0 /\ params_version = 0 /\ epoch_log = <<>>
    /\ files = {}

\* C5: with the data file missing main stops before any data processing,
\* with zero windows it stops before the split, the fitting and the training
\* loop; each time a diagnostic is printed and nothing is trained or
\* written. train_model and export_to_onnx are reached only with the file
\* present and at least one window.
C5_AbortBeforeTraining ==
    program = "train" =>
        /\ ~file_exists =>
              /\ pc \in {"start", "done"}
              /\ lp_pc = "idle"
              /\ pc = "done" => "data_not_found" \in stdout
              /\ NothingRan
        /\ (file_exists /\ lp_pc = "done" /\ Len(sequences) = 0) =>
              /\ pc \in {"loading", "done"}
              /\ pc = "done" => "no_training_data" \in stdout
              /\ NothingRan
        /\ (tm_pc # "idle" \/ pc \in {"export", "export_trace", "finish"}
                \/ files # {}) =>
              /\ file_exists
              /\ Len(sequences) >= 1

\* A run over a table with events but no session long enough ended with the
\* diagnostic.
C5_Witness ==
    /\ program = "train" /\ pc = "done"
    /\ file_exists /\ df # <<>> /\ Len(sequences) = 0
    /\ "no_training_data" \in stdout

\* C6: a graph artifact is on disk only if the graph's structural check ran
\* and passed in that run.
C6_WrittenOnlyAfterValidation == files # {} => validated

LogKinds(kind) == { k \in DOMAIN epoch_log : epoch_log[k].kind = kind }

RECURSIVE BestAfter(_, _)
\* The best validation loss after the first j epochs of series s.
BestAfter(s, j) ==
    IF j = 0 THEN [inf |-> TRUE, v |-> 0]
    ELSE LET b == BestAfter(s, j - 1)
         IN  IF IsBetter(s[j], b) THEN [inf |-> FALSE, v |-> s[j]] ELSE b

NotImproved(s, j) == ~IsBetter(s[j], BestAfter(s, j - 1))

\* Epoch e ends a run of k consecutive epochs without improvement.
RunEndsAt(s, e, k) == e >= k /\ \A j \in (e - k + 1)..e : NotImproved(s, j)

\* The first epoch that ends such a run, 0 if there is none.
FirstRunEnd(s, k) ==
    LET ends == { e \in 1..Len(s) : RunEndsAt(s, e, k) }
    IN  IF ends = {} THEN 0 ELSE Min(ends)

\* C7 as claimed: the first halving of the learning rate happens at the end
\* of the 5th consecutive epoch without improvement of the validation loss.
C7_FirstHalvingAfterFive ==
    LET e == FirstRunEnd(val_losses, 5)
    IN  IF e = 0 THEN halved_at = <<>>
        ELSE halved_at # <<>> /\ halved_at[1] = e

\* C7 amended: the first halving of the learning rate happens at the end of
\* the 6th consecutive epoch without improvement (an epoch improves when its
\* validation loss is below the best so far by more than the relative
\* threshold), not earlier and not later; it is determined by the validation
\* loss series alone.
C7_FirstHalvingAfterSix ==
    LET e == FirstRunEnd(val_losses, 6)
    IN  /\ IF e = 0 THEN halved_at = <<>> /\ lr \in {0, 1000000}
           ELSE halved_at # <<>> /\ halved_at[1] = e /\ lr <= 500000
        /\ Len(val_losses) = epoch

\* The rate was halved.
C7_Witness == halved_at # <<>> /\ lr = 500000

\* C8: training forward passes run with dropout on, validation forward
\* passes with dropout off, without gradients and without a parameter
\* update; the validation pass follows the epoch's training batches and goes
\* over each validation batch once; one mean training loss and one mean
\* validation loss are recorded per epoch; the export trace runs with
\* dropout off.
C8_ModesPerEpoch ==
    /\ \A k \in DOMAIN epoch_log :
          LET e == epoch_log[k] IN
          /\ e.kind = "train" => e.dropout /\ e.grad
          /\ e.kind = "val" =>
                /\ ~e.dropout /\ ~e.grad
                /\ k > 1 /\ e.params = epoch_log[k - 1].params
          /\ e.kind = "export" => ~e.dropout
          /\ \A j \in DOMAIN epoch_log :
                (j < k /\ epoch_log[j].kind = "val") => e.kind # "train"
    /\ tm_pc \in {"epoch", "done"} =>
          /\ Len(train_losses) = epoch /\ Len(val_losses) = epoch
          /\ epoch >= 1 =>
                /\ Cardinality(LogKinds("train")) =
                       NumBatches(Len(train_idx), batch_size)
                /\ Cardinality(LogKinds("val")) =
                       NumBatches(Len(val_idx), batch_size)
                /\ UNION { epoch_log[k].batch : k \in LogKinds("val") } =
                       Range(val_idx)
    /\ tm_pc \in {"train", "val"} =>
          Len(train_losses) = epoch /\ Len(val_losses) = epoch

\* The model was exported after two epochs of two training and two
\* validation batches each.
C8_Witness ==
    /\ pc = "done" /\ epoch = 2
    /\ Cardinality(LogKinds("train")) = 2
    /\ Cardinality(LogKinds("val")) = 2
    /\ Cardinality(LogKinds("export")) = 1

Names(ios) == [k \in DOMAIN ios |-> ios[k].name]

DynamicAxes(io) == { a \in DOMAIN io.shape : io.shape[a].dynamic }

\* A single scalar: every dimension is fixed at 1.
SingleScalar(io) == \A a \in DOMAIN io.shape : io.shape[a] = Dim(1)

\* Rank and fixed dimensions of a concrete input shape match the declaration.
Accepts(io, shape) ==
    /\ Len(shape) = Len(io.shape)
    /\ \A a \in DOMAIN shape : io.shape[a].dynamic \/ io.shape[a].size = shape[a]

InputShapes == UNION { [1..r -> 1..6] : r \in 1..3 }

InterfaceCompatible(g, h) ==
    /\ Names(g.inputs) = <<"history", "config">>
    /\ Names(h.inputs) = <<"history", "config">>
    /\ Names(g.outputs) = <<"targetVx", "targetVy">>
    /\ Names(h.outputs) = <<"targetVx", "targetVy">>
    /\ Len(g.inputs[1].shape) = Len(h.inputs[1].shape)
    /\ g.inputs[1].shape[Len(g.inputs[1].shape)] =
           h.inputs[1].shape[Len(h.inputs[1].shape)]
    /\ Cardinality(DynamicAxes(g.inputs[1])) = 1
    /\ Cardinality(DynamicAxes(h.inputs[1])) = 1
    /\ SingleScalar(g.inputs[2]) /\ SingleScalar(h.inputs[2])
    /\ \A k \in 1..2 : SingleScalar(g.outputs[k]) /\ SingleScalar(h.outputs[k])
    /\ g.opset = h.opset
    /\ \A k \in 1..2 : \A shape \in InputShapes :
          Accepts(g.inputs[k], shape) <=> Accepts(h.inputs[k], shape)

\* C9: the graph written by export_to_onnx is interface-compatible with the
\* graph of the dummy generator.
C9_InterfaceCompatible ==
    \A f \in files :
        f.path = "public/pytorch_dot_behavior.onnx" =>
            InterfaceCompatible(f.graph, create_dummy_model)

\* C10: in every training and validation forward pass the config input is 1
\* for every example of the batch, whatever the maxSpeed recorded in configs
\* for that example.
C10_ConfigIsOne ==
    \A k \in DOMAIN epoch_log :
        LET e == epoch_log[k] IN
        e.kind \in {"train", "val"} =>
            /\ e.batch # {}
            /\ e.batch \subseteq DOMAIN configs
            /\ e.config = [b \in e.batch |-> 1]

\* A training pass and a validation pass were given examples of a session
\* whose maxSpeed is 2.
C10_Witness ==
    /\ \E k \in LogKinds("train") :
          \E b \in epoch_log[k].batch : configs[b] = <<2>>
    /\ \E k \in LogKinds("val") :
          \E b \in epoch_log[k].batch : configs[b] = <<2>>

====
